---- MODULE Spec2Model ----
(***************************************************************************)
(* State-machine model of the YOLO_Tools desktop utilities:                *)
(*   - AZYoloClassRemover2.py   (class removal and label re-indexing)      *)
(*   - SaveAsYOLOv8.py          (dataset folder layout written by the      *)
(*                               labelling helper)                         *)
(*   - AZ_ClassExport2.py / AZ_ClassExport2-batch.py (episode extraction)  *)
(*   - AZYoloDatasetRearrange.py (train/val/test rearrangement)            *)
(* Each tool is an independent program; each has its own specification     *)
(* over its own variables, the other tools' variables staying idle.        *)
(***************************************************************************)
EXTENDS Integers, Sequences, FiniteSets, TLC

VARIABLES
    \* ---- class remover + SaveAsYOLOv8 layout ----
    label_files,      \* dir |-> sequence (os.listdir order) of label files;
                      \* a file is a sequence of lines, a line the sequence
                      \* of its whitespace-separated tokens (line.split())
    data_yaml,        \* the data.yaml of the dataset
    class_names,      \* the class list handed to makedatayaml
    yaml_path_entry,  \* the Entry widget holding the yaml path
    class_listbox,    \* the Listbox items
    active,           \* the Listbox's active index (tk.ACTIVE), 0-based
    run,              \* record of the last process_dataset call
    \* ---- VideoFrameExtractorApp (AZ_ClassExport2 and AZ_ClassExport2-batch) ----
    video_paths,      \* the selected videos; a video is [total_frames, det],
                      \* det[cls] the frames in which the model detects cls
    selected_classes, \* the class(es) chosen in the dropdown / listbox
    frame_step,       \* IntVar "Frame Step"
    max_images,       \* IntVar "Max Frames to Save"
    stopped,          \* self.stopped
    resume_from_frame,\* self.resume_from_frame
    threads,          \* worker threads: id |-> locals of process_video(s)
    interrupted_at,   \* video |-> frame index at which Stop last interrupted
                      \* it, -1 if it was not (history)
    \* ---- YoloDatasetRearranger ----
    image_files,      \* <<split, file name>> |-> the image stored under
                      \* <split>/images/<file name>
    image_labels,     \* <<split, file name>> |-> the label file stored under
                      \* <split>/labels/<stem>.txt
    rearranged,       \* record of the last rearrange_dataset call
    \* ---- YOLOVideoApp (AZAnalysis) ----
    analysis_video,   \* the loaded video: [frame_count, det], det[cls] the
                      \* frames in which the model finds a box of cls
    frame_skip,       \* self.frame_skip
    stop_process,     \* self.stop_process
    classes_frames,   \* self.classes_frames; each entry also carries the
                      \* position given to cap.set before the read (history)
    analysis_threads, \* worker threads: id |-> locals of process_video
    \* ---- classification dataset splitter ----
    input_var,        \* StringVar of the input folder ("" = not selected)
    output_var,       \* StringVar of the output folder
    input_dir,        \* class subfolder |-> set of the file names in it
    output_dir,       \* set of <<split, class, file name>> present in the output
    split_run         \* record of the last split_dataset call

remVars == <<label_files, data_yaml, class_names, yaml_path_entry,
             class_listbox, active, run>>

extVars == <<video_paths, selected_classes, frame_step, max_images, stopped,
             resume_from_frame, threads, interrupted_at>>

reaVars == <<image_files, image_labels, rearranged>>

anaVars == <<analysis_video, frame_skip, stop_process, classes_frames,
             analysis_threads>>

splVars == <<input_var, output_var, input_dir, output_dir, split_run>>

vars == <<remVars, extVars, reaVars, anaVars, splVars>>

\* what each tool leaves alone: the variables of the other tools
notRemVars == <<extVars, reaVars, anaVars, splVars>>
notExtVars == <<remVars, reaVars, anaVars, splVars>>
notReaVars == <<remVars, extVars, anaVars, splVars>>
notAnaVars == <<remVars, extVars, reaVars, splVars>>
notSplVars == <<remVars, extVars, reaVars, anaVars>>

----------------------------------------------------------------------------
(* Generic helpers *)

Min(a, b) == IF a < b THEN a ELSE b

Abs(x) == IF x < 0 THEN -x ELSE x

Range(s) == {s[i] : i \in DOMAIN s}

\* a pop() that ignores the index and drops the last element
PopLast(s, idx0) == SubSeq(s, 1, Len(s) - 1)

\* list.pop(index) on a 0-based index: the list without that element
Pop(s, idx0) == [i \in 1..(Len(s) - 1) |-> IF i <= idx0 THEN s[i] ELSE s[i + 1]]

----------------------------------------------------------------------------
(* Bounds of the class-remover model *)

MaxClasses == 3      \* longest 'names' list of a data.yaml
MaxLines == 2        \* label lines in the whole dataset
MaxRemovals == 2     \* "Remove Class" runs that reach the label files, per session

ClassNamePool == <<"c0", "c1", "c2", "c3", "c4", "c5">>

\* names lists: c0..c(n-1), plus one list that repeats a name
DistinctNames(n) == [i \in 1..n |-> ClassNamePool[i]]
RepeatedNames == [i \in 1..MaxClasses |-> IF i = MaxClasses THEN ClassNamePool[1]
                                          ELSE ClassNamePool[i]]
NameLists == {DistinctNames(n) : n \in 1..MaxClasses} \cup {RepeatedNames}

\* A label line: <<>> is a blank line; otherwise <<class index, payload>>.
\* The payload stands for the remaining tokens (the coordinates); it is made
\* unique per line (10*file + position) so that lines can be told apart.
Blank == <<>>
LabelFile(fileno, n, nc) ==
    { [j \in 1..n |-> IF c[j] = -1 THEN Blank ELSE <<c[j], 10 * fileno + j>>] :
        c \in [1..n -> (0..nc) \cup {-1}] }

\* the three split folders every GUI tool walks, in this order
Splits == <<"train", "val", "test">>
SplitSet == Range(Splits)

Flat == "."          \* source_directory of makeyolo: jpg/txt pairs side by side

\* Two label files holding at most MaxLines lines together; the first in
\* train/labels, the second in train, val or test; or both still flat in the
\* source directory of SaveAsYOLOv8.makeyolo.
Layouts(f1, f2) ==
    { ("train" :> <<f1, f2>>), ("train" :> <<f1>>) @@ ("val" :> <<f2>>),
      ("train" :> <<f1>>) @@ ("test" :> <<f2>>), (Flat :> <<f1, f2>>) }

NoRun == [outcome |-> "none", k |-> -1, selected |-> "", pre_files |-> <<>>,
          pre_names |-> <<>>, done |-> {}, runs |-> 0]

NoRearrange == [calls |-> 0, outcome |-> "none", before |-> <<>>, test_percent |-> 0, split_scale |-> 0,
                n |-> 0, train |-> 0, valid |-> 0, test |-> 0]

NoSplit == [calls |-> 0, outcome |-> "none", train_pct |-> 0, val_pct |-> 0,
            test_pct |-> 0, copied |-> <<>>]

\* the video analysis, nothing loaded
AnalysisIdle ==
    /\ analysis_video = [frame_count |-> 0, det |-> <<>>]
    /\ frame_skip = 20
    /\ stop_process = FALSE
    /\ classes_frames = <<>>
    /\ analysis_threads = <<>>

\* the classification splitter, no folder selected
SplitterIdle ==
    /\ input_var = ""
    /\ output_var = ""
    /\ input_dir = <<>>
    /\ output_dir = {}
    /\ split_run = NoSplit

\* the rearranger, without a dataset
RearrangerIdle ==
    /\ image_files = <<>>
    /\ image_labels = <<>>
    /\ rearranged = NoRearrange

\* the class remover, without a dataset
RemoverIdle ==
    /\ label_files = <<>>
    /\ data_yaml = [exists |-> FALSE, names |-> <<>>, nc |-> 0]
    /\ class_names = <<>>
    /\ yaml_path_entry = ""
    /\ class_listbox = <<>>
    /\ active = 0
    /\ run = NoRun

\* the frame extractor, not running
ExtractorIdle ==
    /\ video_paths = <<>>
    /\ selected_classes = <<>>
    /\ frame_step = 10
    /\ max_images = 500
    /\ stopped = FALSE
    /\ resume_from_frame = 0
    /\ threads = <<>>
    /\ interrupted_at = <<>>

InitRemover ==
    \E names \in NameLists, n1 \in 0..MaxLines :
      \E n2 \in 0..(MaxLines - n1) :
        \E f1 \in LabelFile(1, n1, Len(names)), f2 \in LabelFile(2, n2, Len(names)) :
          \E lay \in Layouts(f1, f2) :
            /\ label_files = lay
            /\ class_names = names
            /\ data_yaml = IF Flat \in DOMAIN lay
                           THEN [exists |-> FALSE, names |-> <<>>, nc |-> 0]
                           ELSE [exists |-> TRUE, names |-> names, nc |-> Len(names)]
            /\ yaml_path_entry = ""
            /\ class_listbox = <<>>
            /\ active = 0
            /\ run = NoRun
            /\ ExtractorIdle
            /\ RearrangerIdle
            /\ AnalysisIdle
            /\ SplitterIdle

----------------------------------------------------------------------------
(* SaveAsYOLOv8.py *)

\* makeyolofolders: os.makedirs(..., exist_ok=True) of train/ and valid/
WithDir(files, d) == IF d \in DOMAIN files THEN files ELSE files @@ (d :> <<>>)

makeyolofolders ==
    /\ Flat \in DOMAIN label_files
    /\ label_files' = WithDir(WithDir(label_files, "train"), "valid")
    /\ UNCHANGED <<data_yaml, class_names, yaml_path_entry, class_listbox, active, run, notRemVars>>

\* makedatayaml: writes nc = len(class_names) and names
makedatayaml ==
    /\ Flat \in DOMAIN label_files
    /\ data_yaml' = [exists |-> TRUE, names |-> class_names, nc |-> Len(class_names)]
    /\ UNCHANGED <<label_files, class_names, yaml_path_entry, class_listbox, active, run, notRemVars>>

\* int(ratio * len(file_pairs)) with ratio given in percent
NumTrainPairs(ratio, n) == (ratio * n) \div 100

\* the outcomes of random.shuffle on a list of n elements
Shuffles(n) == {p \in [1..n -> 1..n] : \A i, j \in 1..n : p[i] = p[j] => i = j}

\* makeyolo: shuffle the pairs, move the first num_train_pairs label files to
\* train/labels and the others to valid/labels
makeyolo(ratio, p) ==
    /\ Flat \in DOMAIN label_files
    /\ {"train", "valid"} \subseteq DOMAIN label_files
    /\ LET pairs == label_files[Flat]
           shuffled == [i \in 1..Len(pairs) |-> pairs[p[i]]]
           num_train_pairs == NumTrainPairs(ratio, Len(pairs))
           train_pairs == SubSeq(shuffled, 1, num_train_pairs)
           valid_pairs == SubSeq(shuffled, num_train_pairs + 1, Len(pairs))
       IN  label_files' = [d \in DOMAIN label_files \ {Flat} |->
                              CASE d = "train" -> label_files[d] \o train_pairs
                                [] d = "valid" -> label_files[d] \o valid_pairs
                                [] OTHER -> label_files[d]]
    /\ UNCHANGED <<data_yaml, class_names, yaml_path_entry, class_listbox, active, run, notRemVars>>

Ratios == {80, 50}

MakeYolo ==
    \E ratio \in Ratios :
      \E p \in Shuffles(IF Flat \in DOMAIN label_files THEN Len(label_files[Flat]) ELSE 0) :
        makeyolo(ratio, p)

----------------------------------------------------------------------------
(* AZYoloClassRemover2.py *)

\* get_class_index: classes.index(class_name), or -1
get_class_index(classes, class_name) ==
    IF class_name \in Range(classes)
    THEN (CHOOSE i \in 1..Len(classes) :
            /\ classes[i] = class_name
            /\ \A j \in 1..(i - 1) : classes[j] # class_name) - 1
    ELSE -1

\* a class_map that forgets to shift the indices above the removed one
ClassMapNoShift(old_class_index, new_len) == [i \in 0..new_len |-> i]

\* class_map = {i: (i if i < old_class_index else i - 1)
\*              for i in range(len(classes) + 1)}, classes already popped
ClassMap(old_class_index, new_len) ==
    [i \in 0..new_len |-> IF i < old_class_index THEN i ELSE i - 1]

Raised == [raised |-> TRUE, out |-> <<>>]

\* the inner loop of update_labels over the lines of one file: new_lines, or
\* the exception raised by parts[0] (blank line) or class_map[class_idx]
RECURSIVE NewLines(_, _, _)
NewLines(lines, old_class_index, class_map) ==
    IF lines = <<>> THEN [raised |-> FALSE, out |-> <<>>]
    ELSE LET parts == Head(lines) IN
         IF Len(parts) = 0 THEN Raised
         ELSE LET class_idx == parts[1] IN
              IF class_idx # old_class_index
              THEN IF class_idx \notin DOMAIN class_map THEN Raised
                   ELSE LET rest == NewLines(Tail(lines), old_class_index, class_map)
                        IN  IF rest.raised THEN Raised
                            ELSE [raised |-> FALSE,
                                  out |-> <<[parts EXCEPT ![1] = class_map[class_idx]]>>
                                          \o rest.out]
              ELSE NewLines(Tail(lines), old_class_index, class_map)

\* an update_labels that catches the exception of a file and goes on with
\* the files after it
RECURSIVE UpdateLabelsSkipping(_, _, _, _)
UpdateLabelsSkipping(files, i, old_class_index, class_map) ==
    IF i > Len(files) THEN [raised |-> FALSE, files |-> files, processed |-> Len(files)]
    ELSE LET new == NewLines(files[i], old_class_index, class_map) IN
         IF new.raised
         THEN [raised |-> TRUE,
               files |-> UpdateLabelsSkipping(files, i + 1, old_class_index, class_map).files,
               processed |-> i - 1]
         ELSE UpdateLabelsSkipping([files EXCEPT ![i] = new.out], i + 1,
                                   old_class_index, class_map)

\* update_labels on the files of one label_dir from position i on: every file
\* is read, rewritten and counted in turn; an exception leaves the file it
\* was raised on and all later files as they were
RECURSIVE update_labels(_, _, _, _)
update_labels(files, i, old_class_index, class_map) ==
    IF i > Len(files) THEN [raised |-> FALSE, files |-> files, processed |-> Len(files)]
    ELSE LET new == NewLines(files[i], old_class_index, class_map) IN
         IF new.raised THEN [raised |-> TRUE, files |-> files, processed |-> i - 1]
         ELSE update_labels([files EXCEPT ![i] = new.out], i + 1,
                            old_class_index, class_map)

\* the second loop of process_dataset over ['train', 'val', 'test'], from
\* split s on; st = [raised, files (all dirs), done (rewritten files)]
RECURSIVE ProcessSplits(_, _, _, _)
ProcessSplits(st, s, old_class_index, class_map) ==
    IF s > Len(Splits) \/ st.raised THEN st
    ELSE LET split == Splits[s] IN
         IF split \in DOMAIN st.files
         THEN LET r == update_labels(st.files[split], 1, old_class_index, class_map)
              IN  ProcessSplits([raised |-> r.raised,
                                 files |-> [st.files EXCEPT ![split] = r.files],
                                 done |-> st.done \cup {<<split, i>> : i \in 1..r.processed}],
                                s + 1, old_class_index, class_map)
         ELSE ProcessSplits(st, s + 1, old_class_index, class_map)

\* select_yaml_file + load_classes: the user picks the data.yaml of a laid-out
\* dataset; the listbox is filled from its 'names'
select_yaml_file ==
    /\ data_yaml.exists
    /\ Flat \notin DOMAIN label_files
    /\ yaml_path_entry' = "data.yaml"
    /\ class_listbox' = data_yaml.names
    /\ active' = 0
    /\ UNCHANGED <<label_files, data_yaml, class_names, run, notRemVars>>

\* process_dataset, the "Remove Class" button, pressed with listbox item j
\* active (class_listbox.get(tk.ACTIVE)); the listbox is not reloaded after a
\* removal, so it may still show classes that are gone
process_dataset(j) ==
    /\ yaml_path_entry # ""
    /\ run.runs < MaxRemovals
    /\ active' = j
    /\ LET selected_class == class_listbox[j + 1]
           classes == data_yaml.names
           old_class_index == get_class_index(classes, selected_class)
       IN  IF old_class_index = -1
           THEN /\ run' = [NoRun EXCEPT !.outcome = "not_found", !.selected = selected_class,
                                            !.runs = run.runs]
                /\ UNCHANGED <<label_files, data_yaml>>
           ELSE LET new_classes == Pop(classes, old_class_index)
                    class_map == ClassMap(old_class_index, Len(new_classes))
                    st == ProcessSplits([raised |-> FALSE, files |-> label_files, done |-> {}],
                                        1, old_class_index, class_map)
                IN  /\ data_yaml' = [data_yaml EXCEPT !.names = new_classes,
                                                      !.nc = Len(new_classes)]
                    /\ label_files' = st.files
                    /\ run' = [outcome |-> IF st.raised THEN "raised" ELSE "success",
                               k |-> old_class_index,
                               selected |-> selected_class,
                               pre_files |-> label_files,
                               pre_names |-> classes,
                               done |-> st.done,
                               runs |-> run.runs + 1]
    /\ UNCHANGED <<class_names, yaml_path_entry, class_listbox, notRemVars>>

RemoveClass == \E j \in 0..(Len(class_listbox) - 1) : process_dataset(j)

NextRemover ==
    \/ makeyolofolders
    \/ makedatayaml
    \/ MakeYolo
    \/ select_yaml_file
    \/ RemoveClass

SpecRemover == InitRemover /\ [][NextRemover]_vars

----------------------------------------------------------------------------
(* Properties of the class remover *)

\* the lines of a file that do not carry class index k, in order
Kept(lines, k) == SelectSeq(lines, LAMBDA l : Len(l) = 0 \/ l[1] # k)

\* the tokens after the leading one, line by line
Payloads(lines) == [i \in 1..Len(lines) |-> IF Len(lines[i]) = 0 THEN <<>> ELSE Tail(lines[i])]

LeadingIndices(lines) == {lines[i][1] : i \in {j \in 1..Len(lines) : Len(lines[j]) > 0}}

\* label files under train/labels, val/labels, test/labels
SplitFiles(files) == {<<d, i>> : d \in SplitSet \cap DOMAIN files, i \in 1..MaxLines} \cap
                     UNION {{<<d, i>> : i \in 1..Len(files[d])} : d \in DOMAIN files}

AllFiles(files) == UNION {{<<d, i>> : i \in 1..Len(files[d])} : d \in DOMAIN files}

RanRemoval == run.outcome \in {"success", "raised"}

\* C1: after a class removal with removed index k, every label file under
\* train/val/test holds exactly the original lines whose leading index differs
\* from k, in their original order (lines identified by their payload tokens).
C1_EveryFileFiltered ==
    RanRemoval =>
        \A f \in SplitFiles(label_files) :
            Payloads(label_files[f[1]][f[2]]) =
                Payloads(Kept(run.pre_files[f[1]][f[2]], run.k))

\* C2: in every file the removal rewrote, each kept line carries index i when
\* the original index i < k and i - 1 when i > k, followed by the original
\* remaining tokens, in the original order.
C2_KeptLinesRemapped ==
    RanRemoval =>
        \A f \in run.done :
            LET old == Kept(run.pre_files[f[1]][f[2]], run.k)
                new == label_files[f[1]][f[2]]
            IN  /\ Len(new) = Len(old)
                /\ \A j \in 1..Len(old) :
                     /\ Len(old[j]) > 0
                     /\ new[j] = <<IF old[j][1] < run.k THEN old[j][1] ELSE old[j][1] - 1>>
                                 \o Tail(old[j])

\* C2 witness: a rewritten file that kept a line below k (or a shifted one
\* above k) while a line was shifted
C2_Witness ==
    /\ RanRemoval
    /\ \E f \in run.done :
         LET old == run.pre_files[f[1]][f[2]] IN
         /\ \E j \in 1..Len(old) : Len(old[j]) > 0 /\ old[j][1] < run.k
         /\ \E j \in 1..Len(old) : Len(old[j]) > 0 /\ old[j][1] > run.k

\* the place of a label file in the order process_dataset visits them
SplitIndex(split) == CHOOSE s \in 1..Len(Splits) : Splits[s] = split
VisitedBefore(f, g) ==
    \/ SplitIndex(f[1]) < SplitIndex(g[1])
    \/ f[1] = g[1] /\ f[2] < g[2]

\* a line update_labels raises on: blank, or an index other than the removed
\* one that class_map (0..old nc-1) does not hold
RaisesOn(line, k, old_nc) ==
    \/ line = Blank
    \/ line # Blank /\ line[1] # k /\ line[1] \notin 0..(old_nc - 1)

\* C15: when update_labels raises during a removal, data.yaml is already
\* rewritten without the class, the files visited before the failing one are
\* remapped, and the failing file (which holds a blank line or an index
\* missing from class_map) and all files after it are as they were.
C15_RaiseLeavesDatasetHalfDone ==
    run.outcome = "raised" =>
        LET all == SplitFiles(run.pre_files)
            left == all \ run.done
        IN  /\ data_yaml.names = Pop(run.pre_names, run.k)
            /\ data_yaml.nc = Len(run.pre_names) - 1
            /\ left # {}
            /\ \A f \in run.done, g \in left : VisitedBefore(f, g)
            /\ \E g \in left :
                 /\ \A h \in left \ {g} : VisitedBefore(g, h)
                 /\ \E j \in DOMAIN run.pre_files[g[1]][g[2]] :
                      RaisesOn(run.pre_files[g[1]][g[2]][j], run.k, Len(run.pre_names))
            /\ \A g \in left : label_files[g[1]][g[2]] = run.pre_files[g[1]][g[2]]
            /\ \A f \in run.done :
                 LET old == Kept(run.pre_files[f[1]][f[2]], run.k)
                     new == label_files[f[1]][f[2]]
                 IN  /\ Len(new) = Len(old)
                     /\ \A j \in 1..Len(old) :
                          new[j] = <<IF old[j][1] < run.k THEN old[j][1]
                                     ELSE old[j][1] - 1>> \o Tail(old[j])

\* C15 witness: a removal that raised after it had rewritten an earlier file
\* whose content changed, the failing file keeping a line it had
C15_Witness ==
    /\ run.outcome = "raised"
    /\ \E f \in run.done : label_files[f[1]][f[2]] # run.pre_files[f[1]][f[2]]
    /\ \E g \in SplitFiles(run.pre_files) \ run.done :
         label_files[g[1]][g[2]] # <<>>

DistinctClassNames(names) == \A i, j \in 1..Len(names) : names[i] = names[j] => i = j

IndicesInRange(files, nc) ==
    \A f \in SplitFiles(files) : LeadingIndices(files[f[1]][f[2]]) \subseteq 0..(nc - 1)

\* C3: after a successful removal on a dataset with distinct class names and
\* all label indices in 0..nc-1: names is the old list without the selected
\* class, nc = len(names), every label index of train/val/test is in 0..nc-1
\* and every retained annotation still refers to the same class name.
C3_YamlAndLabelsConsistent ==
    (/\ run.outcome = "success"
     /\ DistinctClassNames(run.pre_names)
     /\ IndicesInRange(run.pre_files, Len(run.pre_names)))
    => /\ data_yaml.names = SelectSeq(run.pre_names,
                                      LAMBDA n : n # run.selected)
       /\ Len(data_yaml.names) = Len(run.pre_names) - 1
       /\ data_yaml.nc = Len(data_yaml.names)
       /\ IndicesInRange(label_files, data_yaml.nc)
       /\ \A f \in SplitFiles(label_files) :
            LET old == Kept(run.pre_files[f[1]][f[2]], run.k)
                new == label_files[f[1]][f[2]]
            IN  /\ Len(new) = Len(old)
                /\ \A j \in 1..Len(new) :
                     /\ Tail(new[j]) = Tail(old[j])
                     /\ data_yaml.names[new[j][1] + 1] = run.pre_names[old[j][1] + 1]

\* C3 witness: a successful removal from distinct names that retained an
\* annotation of a class above the removed one
C3_Witness ==
    /\ run.outcome = "success"
    /\ DistinctClassNames(run.pre_names)
    /\ IndicesInRange(run.pre_files, Len(run.pre_names))
    /\ \E f \in SplitFiles(label_files) :
         \E j \in 1..Len(label_files[f[1]][f[2]]) :
            Kept(run.pre_files[f[1]][f[2]], run.k)[j][1] > run.k

\* the label file a correct removal of class k leaves behind
Remapped(lines, k) ==
    LET old == Kept(lines, k) IN
    [j \in 1..Len(old) |-> IF Len(old[j]) = 0 THEN old[j]
                           ELSE <<IF old[j][1] < k THEN old[j][1] ELSE old[j][1] - 1>>
                                \o Tail(old[j])]

LaidOutBySaveAsYOLOv8 == "valid" \in DOMAIN label_files /\ Flat \notin DOMAIN label_files

\* C10: in a dataset laid out by SaveAsYOLOv8 (train/ and valid/), a successful
\* class removal visits and remaps the label files of every split, so that
\* all label files agree with the rewritten data.yaml.
C10_EverySplitRemapped ==
    (LaidOutBySaveAsYOLOv8 /\ run.outcome = "success") =>
        \A f \in AllFiles(label_files) :
            label_files[f[1]][f[2]] = Remapped(run.pre_files[f[1]][f[2]], run.k)

----------------------------------------------------------------------------
(* VideoFrameExtractorApp: what AZ_ClassExport2.py and                     *)
(* AZ_ClassExport2-batch.py share                                          *)

EpisodeGap == 60     \* frame_index - ep[-1][0] <= 60
MaxSamples == 6      \* sampled positions of a short video
MaxSave == 3         \* largest "Max Frames to Save" tried on short videos

Steps == {30, 60}    \* "Frame Step" values tried on short videos

Classes == <<"a", "b">>   \* model.names

\* the worker threads a session may spawn, one per press of Start
Workers == {1, 2}

\* A short video for frame step st: MaxSamples sampled positions; class "a"
\* is detected at the positions in pattern, class "b" in every frame.
ShortVideo(st, pattern) ==
    [total_frames |-> MaxSamples * st,
     det |-> [c \in Range(Classes) |->
                IF c = "a" THEN {(i - 1) * st : i \in pattern}
                ELSE 0..(MaxSamples * st - 1)]]

\* a frame stands for (frame_index, frame.copy()): the pixels are those of
\* the video at that index
Detected(video, cls, frame_index) == frame_index \in video.det[cls]

\* a join test that compares with < instead of <=
JoinsEpisodeStrict(ep, frame_index) == frame_index - ep[Len(ep)] < EpisodeGap

\* elif frame_index - current_episode[-1][0] <= 60
JoinsEpisode(ep, frame_index) == frame_index - ep[Len(ep)] <= EpisodeGap

\* the episode bookkeeping for one detection of a class at frame_index:
\* [cur |-> current episode, eps |-> closed episodes (first, last)]
OnDetection(cur, eps, frame_index) ==
    IF cur = <<>> THEN [cur |-> <<frame_index>>, eps |-> eps]
    ELSE IF JoinsEpisode(cur, frame_index)
         THEN [cur |-> Append(cur, frame_index), eps |-> eps]
         ELSE [cur |-> <<frame_index>>,
               eps |-> IF Len(cur) >= 2 THEN Append(eps, <<cur[1], cur[Len(cur)]>>)
                       ELSE eps]

\* after the scan: if current_episode and len(current_episode) >= 2: append
CloseEpisode(cur, eps) ==
    IF cur # <<>> /\ Len(cur) >= 2 THEN Append(eps, <<cur[1], cur[Len(cur)]>>) ELSE eps

\* all_detected = [ep[0] for ep in eps] + [ep[1] for ep in eps]
AllDetected(eps) ==
    [i \in 1..(2 * Len(eps)) |-> IF i <= Len(eps) THEN eps[i][1] ELSE eps[i - Len(eps)][2]]

\* a selection index with the ratio upside down
SelectionIndexInverted(i, len, max_to_save) == (i * max_to_save) \div len

\* indices = [int(i * interval) for i in range(max_to_save)] with
\* interval = len(all_detected) / max_to_save.  For len(all_detected) < 30 the
\* double-precision product truncates to floor(i * len / max_to_save) exactly.
SelectionIndex(i, len, max_to_save) == (i * len) \div max_to_save

\* selected_frames
SelectedFrames(all_detected, max_to_save) ==
    IF Len(all_detected) > max_to_save
    THEN [i \in 1..max_to_save |->
            all_detected[SelectionIndex(i - 1, Len(all_detected), max_to_save) + 1]]
    ELSE all_detected

SelectedSet == Range(selected_classes)

\* the locals of a worker thread that has not run yet
NewThread ==
    [pc |-> "start", vi |-> 0, frame_index |-> 0,
     current_episodes |-> <<>>, episodes_by_class |-> <<>>, exported |-> <<>>,
     began_at |-> <<>>, resume_point |-> interrupted_at]

\* the locals at the start of a video: empty episode lists, no export yet
FreshLocals(th, v, start) ==
    [th EXCEPT !.pc = "loop", !.vi = v, !.frame_index = start,
               !.current_episodes = [c \in SelectedSet |-> <<>>],
               !.episodes_by_class = [c \in SelectedSet |-> <<>>],
               !.exported = [c \in SelectedSet |-> <<>>],
               !.began_at = Append(th.began_at, start)]

\* start_processing_thread: the Start button
start_processing_thread ==
    /\ Len(threads) + 1 \in Workers
    /\ stopped' = FALSE
    /\ threads' = Append(threads, NewThread)
    /\ UNCHANGED <<video_paths, selected_classes, frame_step, max_images,
                   resume_from_frame, interrupted_at, notExtVars>>

\* stop_processing: the Stop button
stop_processing ==
    /\ stopped' = TRUE
    /\ UNCHANGED <<video_paths, selected_classes, frame_step, max_images,
                   resume_from_frame, threads, interrupted_at, notExtVars>>

\* while frame_index < total_frames and not self.stopped
LoopGoesOn(th) == th.frame_index < video_paths[th.vi].total_frames /\ ~stopped

\* the while condition fails: the thread leaves the loop.  A scan cut short
\* by Stop is remembered for the video, a complete one forgets it.
ExitLoop(t) ==
    /\ threads[t].pc = "loop"
    /\ ~LoopGoesOn(threads[t])
    /\ threads' = [threads EXCEPT ![t].pc = "post"]
    /\ interrupted_at' =
         [interrupted_at EXCEPT ![threads[t].vi] =
            IF threads[t].frame_index < video_paths[threads[t].vi].total_frames
            THEN threads[t].frame_index ELSE -1]
    /\ UNCHANGED <<video_paths, selected_classes, frame_step, max_images, stopped,
                   resume_from_frame, notExtVars>>

----------------------------------------------------------------------------
(* AZ_ClassExport2.py: one video, one class *)

InitSingle ==
    \E st \in Steps, pattern \in SUBSET (1..MaxSamples), m \in 1..MaxSave :
        /\ video_paths = <<ShortVideo(st, pattern)>>
        /\ selected_classes = <<"a">>
        /\ frame_step = st
        /\ max_images = m
        /\ stopped = FALSE
        /\ resume_from_frame = 0
        /\ threads = <<>>
        /\ interrupted_at = <<-1>>
        /\ RemoverIdle
        /\ RearrangerIdle
        /\ AnalysisIdle
        /\ SplitterIdle

\* process_video up to the loop: frame_index = self.resume_from_frame
SingleBegin(t) ==
    /\ threads[t].pc = "start"
    /\ threads' = [threads EXCEPT ![t] = FreshLocals(threads[t], 1, resume_from_frame)]
    /\ UNCHANGED <<video_paths, selected_classes, frame_step, max_images, stopped,
                   resume_from_frame, interrupted_at, notExtVars>>

\* one pass of the while loop of process_video
SingleLoop(t) ==
    /\ threads[t].pc = "loop"
    /\ LoopGoesOn(threads[t])
    /\ LET th == threads[t]
           class_name == selected_classes[1]
           r == OnDetection(th.current_episodes[class_name],
                            th.episodes_by_class[class_name], th.frame_index)
       IN  threads' =
             [threads EXCEPT
                ![t].current_episodes =
                    IF Detected(video_paths[1], class_name, th.frame_index)
                    THEN [th.current_episodes EXCEPT ![class_name] = r.cur]
                    ELSE th.current_episodes,
                ![t].episodes_by_class =
                    IF Detected(video_paths[1], class_name, th.frame_index)
                    THEN [th.episodes_by_class EXCEPT ![class_name] = r.eps]
                    ELSE th.episodes_by_class,
                ![t].frame_index = th.frame_index + frame_step]
    /\ UNCHANGED <<video_paths, selected_classes, frame_step, max_images, stopped,
                   resume_from_frame, interrupted_at, notExtVars>>

\* process_video after the loop: remember where the scan stopped, close the
\* open episode, select and write the frames
SinglePost(t) ==
    /\ threads[t].pc = "post"
    /\ LET th == threads[t]
           class_name == selected_classes[1]
           class_episodes == CloseEpisode(th.current_episodes[class_name],
                                          th.episodes_by_class[class_name])
           selected_frames == SelectedFrames(AllDetected(class_episodes), max_images)
       IN  /\ resume_from_frame' = th.frame_index
           /\ threads' = [threads EXCEPT
                            ![t].pc = "done",
                            ![t].episodes_by_class = [th.episodes_by_class EXCEPT
                                                        ![class_name] = class_episodes],
                            ![t].exported = [th.exported EXCEPT
                                               ![class_name] = selected_frames]]
    /\ UNCHANGED <<video_paths, selected_classes, frame_step, max_images, stopped,
                   interrupted_at, notExtVars>>

NextSingle ==
    \/ start_processing_thread
    \/ stop_processing
    \/ \E t \in DOMAIN threads : SingleBegin(t)
    \/ \E t \in DOMAIN threads : SingleLoop(t)
    \/ \E t \in DOMAIN threads : ExitLoop(t)
    \/ \E t \in DOMAIN threads : SinglePost(t)

SpecSingle == InitSingle /\ [][NextSingle]_vars

\* the same tool with "Max Frames to Save" left at one value: the episode
\* bookkeeping of the scan does not read it
InitEpisodes == InitSingle /\ max_images = MaxSave

SpecEpisodes == InitEpisodes /\ [][NextSingle]_vars

----------------------------------------------------------------------------
(* AZ_ClassExport2-batch.py: several videos, several classes *)

DirectSaveThreshold == 60   \* if max_to_save > 60: write every detection
BatchSamples == 5           \* sampled positions of a short batch video
LongFrames == 62            \* frames of the long video, scanned with step 1

\* A short batch video at frame step 60: "a" detected at the positions in
\* pattern, "b" in every frame.
BatchVideo(pattern) ==
    [total_frames |-> BatchSamples * EpisodeGap,
     det |-> [c \in Range(Classes) |->
                IF c = "a" THEN {(i - 1) * EpisodeGap : i \in pattern}
                ELSE 0..(BatchSamples * EpisodeGap - 1)]]

\* a second video of two sampled frames, both showing both classes
TailVideo ==
    [total_frames |-> 2 * EpisodeGap,
     det |-> [c \in Range(Classes) |-> 0..(2 * EpisodeGap - 1)]]

\* a video in which both classes are visible in every one of LongFrames frames
LongVideo ==  [total_frames |-> LongFrames,
               det |-> [c \in Range(Classes) |-> 0..(LongFrames - 1)]]

\* the user's settings: one short video (or a list of two) scanned with step
\* 60 and a small "Max Frames to Save", or the long video scanned frame by
\* frame with the smallest maximum above the direct-save threshold
BatchSettings ==
    { [videos |-> vs, step |-> EpisodeGap, max |-> m] :
        vs \in {<<BatchVideo(pt)>> : pt \in SUBSET (1..BatchSamples)}
               \cup {<<BatchVideo(1..BatchSamples), TailVideo>>},
        m \in 1..MaxSave }
    \cup { [videos |-> <<LongVideo>>, step |-> 1, max |-> DirectSaveThreshold + 1] }

InitBatch ==
    \E cfg \in BatchSettings :
        /\ video_paths = cfg.videos
        /\ selected_classes = Classes
        /\ frame_step = cfg.step
        /\ max_images = cfg.max
        /\ stopped = FALSE
        /\ resume_from_frame = 0
        /\ threads = <<>>
        /\ interrupted_at = [v \in 1..Len(cfg.videos) |-> -1]
        /\ RemoverIdle
        /\ RearrangerIdle
        /\ AnalysisIdle
        /\ SplitterIdle

\* process_videos up to the loop of the first video
BatchBegin(t) ==
    /\ threads[t].pc = "start"
    /\ threads' = [threads EXCEPT ![t] = FreshLocals(threads[t], 1, resume_from_frame)]
    /\ UNCHANGED <<video_paths, selected_classes, frame_step, max_images, stopped,
                   resume_from_frame, interrupted_at, notExtVars>>

\* if max_to_save > 60: cv2.imwrite(...); export_counts[cls] += 1
DirectSave(exported, frame_index) ==
    IF max_images > DirectSaveThreshold THEN Append(exported, frame_index) ELSE exported

\* one pass of the while loop of process_videos: every selected class that
\* is detected in the frame updates its episode and may be written at once
BatchLoop(t) ==
    /\ threads[t].pc = "loop"
    /\ LoopGoesOn(threads[t])
    /\ LET th == threads[t]
           hit(c) == Detected(video_paths[th.vi], c, th.frame_index)
           r(c) == OnDetection(th.current_episodes[c], th.episodes_by_class[c],
                               th.frame_index)
       IN  threads' =
             [threads EXCEPT
                ![t].current_episodes =
                    [c \in SelectedSet |-> IF hit(c) THEN r(c).cur
                                           ELSE th.current_episodes[c]],
                ![t].episodes_by_class =
                    [c \in SelectedSet |-> IF hit(c) THEN r(c).eps
                                           ELSE th.episodes_by_class[c]],
                ![t].exported =
                    [c \in SelectedSet |-> IF hit(c) THEN DirectSave(th.exported[c], th.frame_index)
                                           ELSE th.exported[c]],
                ![t].frame_index = th.frame_index + frame_step]
    /\ UNCHANGED <<video_paths, selected_classes, frame_step, max_images, stopped,
                   resume_from_frame, interrupted_at, notExtVars>>

\* process_videos after the loop of a video: close the open episodes and, if
\* max_to_save <= 60, select and write the episode frames
BatchPost(t) ==
    /\ threads[t].pc = "post"
    /\ LET th == threads[t]
           eps(c) == CloseEpisode(th.current_episodes[c], th.episodes_by_class[c])
       IN  threads' =
             [threads EXCEPT
                ![t].pc = "summary",
                ![t].episodes_by_class = [c \in SelectedSet |-> eps(c)],
                ![t].exported =
                    [c \in SelectedSet |->
                        IF max_images <= DirectSaveThreshold
                        THEN th.exported[c] \o SelectedFrames(AllDetected(eps(c)), max_images)
                        ELSE th.exported[c]]]
    /\ UNCHANGED <<video_paths, selected_classes, frame_step, max_images, stopped,
                   resume_from_frame, interrupted_at, notExtVars>>

\* the export summary is printed; on to the next video (frame_index =
\* self.resume_from_frame again) or to the final message box
BatchNextVideo(t) ==
    /\ threads[t].pc = "summary"
    /\ threads' = [threads EXCEPT ![t] =
                     IF threads[t].vi < Len(video_paths)
                     THEN FreshLocals(threads[t], threads[t].vi + 1, resume_from_frame)
                     ELSE [threads[t] EXCEPT !.pc = "done"]]
    /\ UNCHANGED <<video_paths, selected_classes, frame_step, max_images, stopped,
                   resume_from_frame, interrupted_at, notExtVars>>

NextBatch ==
    \/ start_processing_thread
    \/ stop_processing
    \/ \E t \in DOMAIN threads : BatchBegin(t)
    \/ \E t \in DOMAIN threads : BatchLoop(t)
    \/ \E t \in DOMAIN threads : ExitLoop(t)
    \/ \E t \in DOMAIN threads : BatchPost(t)
    \/ \E t \in DOMAIN threads : BatchNextVideo(t)

SpecBatch == InitBatch /\ [][NextBatch]_vars

----------------------------------------------------------------------------
(* Properties of the single-video extractor *)

Finished(t) == threads[t].pc = "done"

NoDuplicates(q) == \A i, j \in 1..Len(q) : q[i] = q[j] => i = j

\* the position of frame f in the candidate list
PositionIn(q, f) == CHOOSE i \in 1..Len(q) : q[i] = f

\* C6: a finished process_video with E recorded episodes exported exactly
\* min(max_to_save, 2*E) frames, pairwise distinct, all from the episode
\* endpoint list and in the order of strictly increasing list positions.
C6_ExportsAtMostMax ==
    \A t \in DOMAIN threads :
        Finished(t) =>
            LET all_detected == AllDetected(threads[t].episodes_by_class["a"])
                out == threads[t].exported["a"]
            IN  /\ Len(out) = Min(max_images, 2 * Len(threads[t].episodes_by_class["a"]))
                /\ NoDuplicates(out)
                /\ Range(out) \subseteq Range(all_detected)
                /\ \A i, j \in 1..Len(out) :
                     i < j => PositionIn(all_detected, out[i]) < PositionIn(all_detected, out[j])

\* C6 witness: a finished run that had more candidates than max_to_save >= 2
C6_Witness ==
    \E t \in DOMAIN threads :
        /\ Finished(t)
        /\ max_images >= 2
        /\ 2 * Len(threads[t].episodes_by_class["a"]) > max_images

\* the smallest distance between two frames of a set (of at least two)
MinGap(S) ==
    CHOOSE g \in {Abs(a - b) : a, b \in S} \ {0} :
        \A a, b \in S : a # b => g <= Abs(a - b)

\* C7: when there are more candidates than max_to_save, no other choice of
\* max_to_save candidate frames has a larger minimum gap than the exported one.
C7_MostDistantFrames ==
    \A t \in DOMAIN threads :
        (/\ Finished(t)
         /\ max_images >= 2
         /\ 2 * Len(threads[t].episodes_by_class["a"]) > max_images)
        => LET candidates == Range(AllDetected(threads[t].episodes_by_class["a"]))
               chosen == Range(threads[t].exported["a"])
           IN  \A S \in SUBSET candidates :
                   Cardinality(S) = max_images => MinGap(S) <= MinGap(chosen)

\* C13: whatever Start and Stop presses are made, at most one worker thread
\* is inside process_video at any time.
C13_AtMostOneWorker ==
    Cardinality({t \in DOMAIN threads : threads[t].pc \in {"loop", "post"}}) <= 1

\* the frames of class "a" a worker has sampled so far, in scan order
SampledFrames(t) ==
    {f \in threads[t].began_at[1]..(threads[t].frame_index - 1) :
        (f - threads[t].began_at[1]) % frame_step = 0}
Hits(t) == {f \in SampledFrames(t) : Detected(video_paths[1], "a", f)}

\* the detection before f (f itself when it is the first)
PrevHit(H, f) == IF \E g \in H : g < f
                 THEN CHOOSE g \in H : g < f /\ \A h \in H : h < f => h <= g
                 ELSE f
\* f opens an episode: it is the first detection or more than 60 after the last
Opens(H, f) == PrevHit(H, f) = f \/ f - PrevHit(H, f) > 60
Openers(H) == {g \in H : Opens(H, g)}
MaxOf(S) == CHOOSE x \in S : \A y \in S : y <= x
\* the detections of the episode opened by g, O being the openers of H
EpisodeOf(H, O, g) == {f \in H : g <= f /\ \A o \in O : ~(g < o /\ o <= f)}
\* (first, last) of the episodes with at least 2 detections among openers G
EndpointsOf(H, O, G) ==
    {<<g, MaxOf(EpisodeOf(H, O, g))>> :
        g \in {o \in G : Cardinality(EpisodeOf(H, O, o)) >= 2}}

----------------------------------------------------------------------------
(* Properties of the batch extractor *)

\* the image files a thread has written for class c from its current video:
\* the file name ends in the frame index, so two frames make two files
ImagesWritten(t, c) == Cardinality(Range(threads[t].exported[c]))

\* C4: for every video and every selected class, the number of image files
\* written for the class never exceeds "Max Frames to Save".
C4_ImagesPerClassLimited ==
    \A t \in DOMAIN threads :
        threads[t].pc # "start" =>
            \A c \in SelectedSet : ImagesWritten(t, c) <= max_images

\* C5: a worker started after Stop interrupted a video at frame f begins
\* that video at f (resume_point is the interruption known when Start was
\* pressed, began_at the frame each video was begun at).
C5_ResumesWhereStopped ==
    \A t \in DOMAIN threads :
        \A v \in DOMAIN threads[t].began_at :
            threads[t].resume_point[v] >= 0 =>
                threads[t].began_at[v] = threads[t].resume_point[v]

(***************************************************************************)
(* AZYoloDatasetRearrange.py *)
(***************************************************************************)
MaxImages == 5
MaxRearranges == 1

\* every place an image can be stored at, in the order the splits are read
ImageSlots ==
    <<  <<"train", "a.jpg">>, <<"train", "b.png">>,
        <<"val", "a.jpg">>,   <<"val", "b.png">>,
        <<"test", "a.jpg">>,  <<"test", "b.png">>  >>

\* values the user can type into the test-percentage entry (150 is rejected)
TestPercents == {10, 50, 100, 150}
\* positions of the train/valid slider
SliderValues == {0, 70, 100}

\* a dataset folder with data.yaml: images in some of the slots, each file
\* its own content, and either every image or no image with a label file
InitRearrange ==
    /\ RemoverIdle
    /\ ExtractorIdle
    /\ AnalysisIdle
    /\ SplitterIdle
    /\ \E present \in SUBSET Range(ImageSlots) :
         /\ Cardinality(present) <= MaxImages
         /\ image_files = [x \in present |-> x]
         /\ \E labelled \in BOOLEAN :
              image_labels = [x \in (IF labelled THEN present ELSE {}) |-> x]
    /\ rearranged = NoRearrange

\* the text update_split_label shows: the train share in hundredths of a percent
TrainPercentShown(test_percent, scale) == scale * (100 - test_percent)

\* shutil.move(src, dst) on a folder: dst is replaced when it exists
Move(folder, src, dst) ==
    IF src = dst THEN folder
    ELSE [x \in (DOMAIN folder \ {src}) \cup {dst} |->
            IF x = dst THEN folder[src] ELSE folder[x]]

RECURSIVE move_files(_, _, _)
move_files(disk, split, files) ==
    IF files = <<>> \/ disk.raised THEN disk
    ELSE LET file == Head(files)
             dst  == <<split, file[2]>>
         IN  IF file \notin DOMAIN disk.img
             THEN [disk EXCEPT !.raised = TRUE]
             ELSE move_files(
                    [img    |-> Move(disk.img, file, dst),
                     lbl    |-> IF file \in DOMAIN disk.lbl
                                THEN Move(disk.lbl, file, dst) ELSE disk.lbl,
                     raised |-> FALSE],
                    split, Tail(files))

\* the images of train, val and test, in that order
AllImages == SelectSeq(ImageSlots, LAMBDA x : x \in DOMAIN image_files)

TestCount(test_percent, n) == (test_percent * n) \div 100
TrainCount(test_percent, scale, remaining) ==
    (TrainPercentShown(test_percent, scale) * remaining) \div 10000

rearrange_dataset(test_percent, scale, order) ==
    /\ rearranged.calls < MaxRearranges
    /\ IF ~(0 <= test_percent /\ test_percent <= 100)
       THEN /\ rearranged' = [rearranged EXCEPT !.calls = @ + 1, !.outcome = "error"]
            /\ UNCHANGED <<image_files, image_labels>>
       ELSE LET n            == Len(AllImages)
                all_images   == [i \in 1..n |-> AllImages[order[i]]]
                test_count   == TestCount(test_percent, n)
                test_images  == SubSeq(all_images, 1, test_count)
                remaining_images == SubSeq(all_images, test_count + 1, n)
                train_count  == TrainCount(test_percent, scale, Len(remaining_images))
                train_images == SubSeq(remaining_images, 1, train_count)
                valid_images == SubSeq(remaining_images, train_count + 1,
                                       Len(remaining_images))
                start == [img |-> image_files, lbl |-> image_labels, raised |-> FALSE]
                d1 == move_files(start, "test", test_images)
                d2 == move_files(d1, "train", train_images)
                d3 == move_files(d2, "val", valid_images)
            IN  /\ image_files' = d3.img
                /\ image_labels' = d3.lbl
                /\ rearranged' =
                     [calls |-> rearranged.calls + 1,
                      outcome |-> IF d3.raised THEN "raised" ELSE "success",
                      before |-> image_files,
                      test_percent |-> test_percent, split_scale |-> scale,
                      n |-> n,
                      train |-> Len(train_images), valid |-> Len(valid_images),
                      test |-> Len(test_images)]
    /\ UNCHANGED notReaVars

Rearrange ==
    \E test_percent \in TestPercents, scale \in SliderValues :
      \E order \in Shuffles(Cardinality(DOMAIN image_files)) :
        rearrange_dataset(test_percent, scale, order)

NextRearrange == Rearrange

SpecRearrange == InitRearrange /\ [][NextRearrange]_vars

(***************************************************************************)
(* Properties of the rearranger *)
(***************************************************************************)
Rearranged == rearranged.calls > 0 /\ rearranged.outcome = "success"

\* C8: after a rearrangement with test percentage t and slider s over N
\* images, the test set has floor(t*N/100) images, the train set has the
\* share shown in the Train label, (s/100)*(100-t) percent of N, to within
\* one image, and the valid set has the rest.
C8_SplitSizes ==
    Rearranged =>
        LET t == rearranged.test_percent
            shown == TrainPercentShown(t, rearranged.split_scale)
            n == rearranged.n
        IN  /\ rearranged.test = (t * n) \div 100
            /\ rearranged.train * 10000 - shown * n <= 10000
            /\ shown * n - rearranged.train * 10000 <= 10000
            /\ rearranged.valid = n - rearranged.test - rearranged.train

\* C9: after a rearrangement every image that was in train, val or test is
\* in exactly one of the three image folders, and the numbers reported for
\* train, valid and test add up to the number of images on disk.
C9_NoImageLost ==
    Rearranged =>
        /\ \A x \in Range(rearranged.before) :
             Cardinality({y \in DOMAIN image_files : image_files[y] = x}) = 1
        /\ rearranged.train + rearranged.valid + rearranged.test
             = Cardinality(DOMAIN image_files)

(***************************************************************************)
(* AZAnalysis.py *)
(***************************************************************************)
AnalysisFrames == 4          \* frames of the analysed video
AnalysisWorkers == {1, 2}    \* how many times Start Processing is pressed
SkipValues == {0, 1, 2}      \* what the user types into "Read every x frames"
MaxEntries == 6              \* entries of classes_frames the model follows

\* a video of AnalysisFrames frames at 30 fps: a box of class "a" in the
\* frames of pattern, a box of class "b" in frame 1
AnalysisVideo(pattern) ==
    [frame_count |-> AnalysisFrames, frame_rate |-> 30,
     det |-> [c \in Range(Classes) |-> IF c = "a" THEN pattern ELSE {1}]]

\* model and video are loaded: the Start Processing button is enabled
InitAnalysis ==
    /\ RemoverIdle
    /\ ExtractorIdle
    /\ RearrangerIdle
    /\ SplitterIdle
    /\ \E pattern \in SUBSET (0..(AnalysisFrames - 1)) :
         analysis_video = AnalysisVideo(pattern)
    /\ frame_skip = 20
    /\ stop_process = FALSE
    /\ classes_frames = <<>>
    /\ analysis_threads = <<>>

\* start_processing: read the skip entry, reset the flag, start a worker
start_processing(skip) ==
    /\ Len(analysis_threads) + 1 \in AnalysisWorkers
    /\ frame_skip' = skip
    /\ stop_process' = FALSE
    /\ analysis_threads' = Append(analysis_threads, [pc |-> "start", frame_number |-> 1])
    /\ UNCHANGED <<analysis_video, classes_frames, notAnaVars>>

\* stop_processing of YOLOVideoApp: the Stop Process button
analysis_stop_processing ==
    /\ analysis_threads # <<>>
    /\ ~stop_process
    /\ stop_process' = TRUE
    /\ UNCHANGED <<analysis_video, frame_skip, classes_frames, analysis_threads,
                   notAnaVars>>

\* process_video up to the loop: frame_count // self.frame_skip raises
\* ZeroDivisionError when the skip is 0
AnalysisBegin(t) ==
    /\ analysis_threads[t].pc = "start"
    /\ analysis_threads' =
         [analysis_threads EXCEPT ![t].pc = IF frame_skip = 0 THEN "raised" ELSE "loop"]
    /\ UNCHANGED <<analysis_video, frame_skip, stop_process, classes_frames, notAnaVars>>

\* the entries one frame adds: one per box, in the order of the boxes
RECURSIVE Detections(_, _, _)
Detections(cs, pos, frame_number) ==
    IF cs = <<>> THEN <<>>
    ELSE (IF pos \in analysis_video.det[Head(cs)]
          THEN << [frame |-> frame_number, class_name |-> Head(cs),
                   time |-> <<frame_number, analysis_video.frame_rate * 60>>,
                   pos |-> pos] >>
          ELSE <<>>)
         \o Detections(Tail(cs), pos, frame_number)

\* one pass of the while loop of process_video.  (A skip of 0 set by a later
\* Start Processing keeps a running worker on the same frame for ever; the
\* model follows the list up to MaxEntries entries.)
AnalysisLoop(t) ==
    /\ analysis_threads[t].pc = "loop"
    /\ Len(classes_frames) < MaxEntries
    /\ LET pos == analysis_threads[t].frame_number
           frame_number == pos + frame_skip
           ret == pos < analysis_video.frame_count
       IN  IF stop_process
           THEN /\ analysis_threads' = [analysis_threads EXCEPT ![t].pc = "done"]
                /\ UNCHANGED classes_frames
           ELSE IF ~ret
           THEN /\ analysis_threads' =
                     [analysis_threads EXCEPT ![t].pc = "done",
                                              ![t].frame_number = frame_number]
                /\ UNCHANGED classes_frames
           ELSE /\ analysis_threads' =
                     [analysis_threads EXCEPT ![t].frame_number = frame_number]
                /\ classes_frames' =
                     classes_frames \o Detections(Classes, pos, frame_number)
    /\ UNCHANGED <<analysis_video, frame_skip, stop_process, notAnaVars>>

NextAnalysis ==
    \/ \E skip \in SkipValues : start_processing(skip)
    \/ analysis_stop_processing
    \/ \E t \in DOMAIN analysis_threads : AnalysisBegin(t)
    \/ \E t \in DOMAIN analysis_threads : AnalysisLoop(t)

SpecAnalysis == InitAnalysis /\ [][NextAnalysis]_vars

\* C11: every entry of classes_frames holds the index of the frame in which
\* the detection was made (the position given to cap.set before the read),
\* and its time value is that index / fps / 60.
C11_FrameOfDetectionRecorded ==
    \A i \in DOMAIN classes_frames :
        /\ classes_frames[i].frame = classes_frames[i].pos
        /\ classes_frames[i].time =
             <<classes_frames[i].pos, analysis_video.frame_rate * 60>>

(***************************************************************************)
(* AZ_Yolov8ClassificationFolderSpliter.py *)
(***************************************************************************)
MaxFiles == 3      \* files in one class subfolder
MaxSplits == 2     \* presses of "Split Dataset" the model follows

SplitClasses == <<"x", "y">>

\* what the user types into Train % / Val % / Test %; <<>> stands for text
\* that float() rejects
Invalid == <<>>
PercentInputs ==
    { <<70, 20, 10>>, <<50, 50, 0>>, <<33, 33, 33>>, <<1, 5, 93>>,
      <<-50, 50, 100>>, <<70, 20, 20>>, Invalid }

\* the inputs of PercentInputs one off 100 whose double-precision sum
\* train_pct + val_pct + test_pct lies within 0.01 of 1.0:
\* 0.01 + 0.05 + 0.93 = 0.9900000000000001, while 0.33 + 0.33 + 0.33 = 0.99
\* and 1.0 - 0.99 = 0.010000000000000009 > 0.01
RoundsWithinTolerance == { <<1, 5, 93>> }

Sum3(pcts) == pcts[1] + pcts[2] + pcts[3]

\* not (abs(train_pct + val_pct + test_pct - 1.0) > 0.01)
SumAccepted(pcts) ==
    IF Sum3(pcts) = 100 THEN TRUE
    ELSE IF Abs(Sum3(pcts) - 100) = 1 THEN pcts \in RoundsWithinTolerance
    ELSE FALSE

\* int(n_total * pct): the product truncated towards zero
IntOf(n_total, percent) ==
    IF n_total * percent >= 0 THEN (n_total * percent) \div 100
    ELSE -((-(n_total * percent)) \div 100)

\* a Python slice bound brought into 0..len
SliceBound(len, i) == IF i < 0 THEN (IF len + i < 0 THEN 0 ELSE len + i)
                       ELSE IF i > len THEN len ELSE i

\* files[a:b], a and b 0-based as in Python
PySlice(files, a, b) ==
    SubSeq(files, SliceBound(Len(files), a) + 1, SliceBound(Len(files), b))

\* an input folder with up to MaxFiles files (named 1..n) in each class
\* subfolder, and an empty output folder elsewhere
InitSplitter ==
    /\ RemoverIdle
    /\ ExtractorIdle
    /\ RearrangerIdle
    /\ AnalysisIdle
    /\ input_var = ""
    /\ output_var = ""
    /\ \E count \in [Range(SplitClasses) -> 0..MaxFiles] :
         input_dir = [c \in Range(SplitClasses) |-> 1..count[c]]
    /\ output_dir = {}
    /\ split_run = NoSplit

select_input_folder ==
    /\ input_var = ""
    /\ input_var' = "input"
    /\ UNCHANGED <<output_var, input_dir, output_dir, split_run, notSplVars>>

select_output_folder ==
    /\ output_var = ""
    /\ output_var' = "output"
    /\ UNCHANGED <<input_var, input_dir, output_dir, split_run, notSplVars>>

\* the three lists of one class for a shuffled file list
SplitOf(files, pcts) ==
    LET n_total == Len(files)
        n_train == IntOf(n_total, pcts[1])
        n_val   == IntOf(n_total, pcts[2])
    IN  [train |-> PySlice(files, 0, n_train),
         val   |-> PySlice(files, n_train, n_train + n_val),
         test  |-> PySlice(files, n_train + n_val, n_total)]

\* the files shutil.copy puts into the output for one class
Copies(cls, parts) ==
    {<<"train", cls, f>> : f \in Range(parts.train)}
    \cup {<<"val", cls, f>> : f \in Range(parts.val)}
    \cup {<<"test", cls, f>> : f \in Range(parts.test)}

split_dataset(pcts, shuffled) ==
    /\ split_run.calls < MaxSplits
    /\ IF input_var = "" \/ output_var = ""
       THEN /\ split_run' = [NoSplit EXCEPT !.calls = split_run.calls + 1,
                                            !.outcome = "no folder"]
            /\ UNCHANGED output_dir
       ELSE IF pcts = Invalid
       THEN /\ split_run' = [NoSplit EXCEPT !.calls = split_run.calls + 1,
                                            !.outcome = "invalid"]
            /\ UNCHANGED output_dir
       ELSE IF ~SumAccepted(pcts)
       THEN /\ split_run' = [calls |-> split_run.calls + 1, outcome |-> "rejected",
                             train_pct |-> pcts[1], val_pct |-> pcts[2],
                             test_pct |-> pcts[3], copied |-> <<>>]
            /\ UNCHANGED output_dir
       ELSE LET parts == [c \in Range(SplitClasses) |-> SplitOf(shuffled[c], pcts)]
            IN  /\ output_dir' = output_dir \cup
                      UNION {Copies(c, parts[c]) : c \in Range(SplitClasses)}
                /\ split_run' = [calls |-> split_run.calls + 1, outcome |-> "done",
                                 train_pct |-> pcts[1], val_pct |-> pcts[2],
                                 test_pct |-> pcts[3], copied |-> parts]
    /\ UNCHANGED <<input_var, output_var, input_dir, notSplVars>>

\* the Split Dataset button, with the entries as typed and random.shuffle
\* free to produce any order of each class's files
SplitDataset ==
    \E pcts \in PercentInputs :
      \E shuffled \in [Range(SplitClasses) -> UNION {Shuffles(n) : n \in 0..MaxFiles}] :
        /\ \A c \in Range(SplitClasses) : Len(shuffled[c]) = Cardinality(input_dir[c])
        /\ split_dataset(pcts, shuffled)

NextSplitter ==
    \/ select_input_folder
    \/ select_output_folder
    \/ SplitDataset

SpecSplitter == InitSplitter /\ [][NextSplitter]_vars

\* C12: after split_dataset is called with folders selected and percentages
\* that sum to 100 within +/-1, every file of every class was copied into
\* exactly one of train, val and test (the three sets are disjoint and cover
\* the class), train holding floor(n*train%) files, val floor(n*val%) and
\* test the rest.
C12_SplitsDisjointAndCover ==
    (/\ split_run.calls > 0
     /\ split_run.outcome \in {"rejected", "done"}
     /\ Abs(split_run.train_pct + split_run.val_pct + split_run.test_pct - 100) <= 1)
    => /\ split_run.outcome = "done"
       /\ \A c \in Range(SplitClasses) :
            LET parts == split_run.copied[c]
                n == Cardinality(input_dir[c])
            IN  /\ Range(parts.train) \cup Range(parts.val) \cup Range(parts.test)
                     = input_dir[c]
                /\ Len(parts.train) + Len(parts.val) + Len(parts.test) = n
                /\ Len(parts.train) = (n * split_run.train_pct) \div 100
                /\ Len(parts.val) = (n * split_run.val_pct) \div 100
                /\ \A f \in input_dir[c] :
                     Cardinality({sp \in {"train", "val", "test"} :
                                    <<sp, c, f>> \in output_dir}) >= 1

==============================================================================
